---- MODULE Spec2Model ----
(***************************************************************************)
(* Model of src/p4est_trimesh.c: the node numbering of p4est_trimesh_new.  *)
(* Every process runs p4est_trimesh_new on its slice of the forest: the    *)
(* enumeration callbacks iter_volume1 / iter_face1, post_query_reply, the  *)
(* allgather of the owned counts, wait_query_reply and the cleanup.        *)
(* The forest, its partition, the ghost layer, the order of the callbacks  *)
(* and the message transport are the collaborators of the file; they are   *)
(* modelled from their contract.  iter_corner1 has an empty body (lines    *)
(* 400-403) and takes no step here.                                        *)
(***************************************************************************)
EXTENDS Integers, Sequences, FiniteSets, TLC

(* ---------------- bounds of the model ---------------- *)
MaxProcs == 3
MaxTrees == 3
MaxRefinedProcs == 2
MaxIndex == 3
MaxAdds == 3
MaxGhosts == 4

(* ---------------- program constants ---------------- *)
VNodesCorner == 9
VNodesFaces == 16
FaceFullBase == 17

VARIABLES
  forest,      \* the forest that is numbered: elements, trees, face connections
  mpisize,     \* number of processes
  gfq,         \* partition: gfq[r+1] is the first global element of rank r
  with_faces,  \* the with_faces argument
  ghost,       \* the ghost layer of every process
  quadrants_offset, \* per process and tree: local elements in the trees before
  pc,          \* position of every process inside p4est_trimesh_new
  iter,        \* callbacks p4est_iterate still has to make, per process
  me,          \* trimesh_meta_t of every process
  ln,          \* p4est_lnodes_t of every process
  owner,       \* owner[0] as iter_face1 resolved it, per process and connection
  nwtotal,     \* outstanding-peer counter of wait_query_reply
  gathered,    \* contributions to the allgather
  net          \* messages handed to the transport

inputs == <<forest, mpisize, gfq, with_faces, ghost, quadrants_offset>>

vars == <<forest, mpisize, gfq, with_faces, ghost, quadrants_offset, pc, iter,
          me, ln, owner, nwtotal, gathered, net>>

Procs == 0 .. (mpisize - 1)

(* ---------------- forests ---------------- *)
(* A side of a face connection: the element(s) on that side and their face. *)
FullSide(e, f) == [is_hanging |-> FALSE, elems |-> <<e>>, face |-> f]
HangSide(e1, e2, f) == [is_hanging |-> TRUE, elems |-> <<e1, e2>>, face |-> f]
Boundary(e, f) == <<FullSide(e, f)>>
Conforming(e1, f1, e2, f2) == <<FullSide(e1, f1), FullSide(e2, f2)>>

(* a brick of n trees in a row, one element per tree *)
StripConns(n) ==
  [i \in 1 .. (n - 1) |-> Conforming(i - 1, 1, i, 0)]
  \o <<Boundary(0, 0), Boundary(n - 1, 1)>>
  \o [i \in 1 .. n |-> Boundary(i - 1, 2)]
  \o [i \in 1 .. n |-> Boundary(i - 1, 3)]

Strip(n) == [ne |-> n, tree |-> [e \in 0 .. (n - 1) |-> e], conns |-> StripConns(n)]

(* one tree refined once: four elements in z-order *)
Grid ==
  [ne |-> 4, tree |-> [e \in 0 .. 3 |-> 0],
   conns |-> <<Conforming(0, 1, 1, 0), Conforming(0, 3, 2, 2),
               Conforming(1, 3, 3, 2), Conforming(2, 1, 3, 0),
               Boundary(0, 0), Boundary(0, 2), Boundary(1, 1), Boundary(1, 2),
               Boundary(2, 0), Boundary(2, 3), Boundary(3, 1), Boundary(3, 3)>>]

(* two trees in a row, the second one refined once: a hanging face between them *)
Hanging ==
  [ne |-> 5, tree |-> [e \in 0 .. 4 |-> IF e = 0 THEN 0 ELSE 1],
   conns |-> << <<FullSide(0, 1), HangSide(1, 3, 0)>>,
               Conforming(1, 1, 2, 0), Conforming(1, 3, 3, 2),
               Conforming(2, 3, 4, 2), Conforming(3, 1, 4, 0),
               Boundary(0, 0), Boundary(0, 2), Boundary(0, 3),
               Boundary(1, 2), Boundary(2, 1), Boundary(2, 2),
               Boundary(3, 3), Boundary(4, 1), Boundary(4, 3)>>]

Strips == {Strip(n) : n \in 1 .. MaxTrees}
Refined == {Grid, Hanging}

ConnIds == 1 .. Len(forest.conns)
Elems == 0 .. (forest.ne - 1)
SideElems(s) == {s.elems[k] : k \in 1 .. Len(s.elems)}
ElemsOfConn(c) == UNION {SideElems(forest.conns[c][i]) : i \in 1 .. Len(forest.conns[c])}
IsHangingConn(c) == \E i \in 1 .. Len(forest.conns[c]) : forest.conns[c][i].is_hanging

(* ---------------- partition and ghost layer ---------------- *)
(* the partitions of n elements among s ranks; a rank is left without element *)
(* only when there are fewer elements than ranks                             *)
Partitions(n, s) ==
  {g \in [1 .. (s + 1) -> 0 .. n] :
     /\ g[1] = 0
     /\ g[s + 1] = n
     /\ \A r \in 1 .. s : g[r] <= g[r + 1]
     /\ Cardinality({r \in 1 .. s : g[r] = g[r + 1]}) = (IF n < s THEN s - n ELSE 0)}

OwnerOf(e) == CHOOSE r \in Procs : gfq[r + 1] <= e /\ e < gfq[r + 2]
LocalElems(p) == {e \in Elems : gfq[p + 1] <= e /\ e < gfq[p + 2]}
LocalNum(e) == e - gfq[OwnerOf(e) + 1]

(* the remote elements that are face neighbours of a local one *)
GhostSet(p) ==
  {e \in Elems \ LocalElems(p) :
     \E c \in ConnIds : e \in ElemsOfConn(c) /\ ElemsOfConn(c) \cap LocalElems(p) # {}}

RECURSIVE SortedSeq(_)
SortedSeq(S) ==
  IF S = {} THEN <<>>
  ELSE LET x == CHOOSE y \in S : \A z \in S : y <= z
       IN <<x>> \o SortedSeq(S \ {x})

(* a ghost element: its identity, its tree and its local number on its owner *)
GhostQuadrant(e) == [elem |-> e, which_tree |-> forest.tree[e], local_num |-> LocalNum(e)]

GhostLayer(p) ==
  [present |-> TRUE,
   ghosts |-> [i \in 1 .. Cardinality(GhostSet(p)) |->
                 GhostQuadrant(SortedSeq(GhostSet(p))[i])],
   proc_offsets |-> [q \in 0 .. mpisize |->
                       Cardinality({e \in GhostSet(p) : OwnerOf(e) < q})]]

NoGhostLayer == [present |-> FALSE, ghosts |-> <<>>, proc_offsets |-> <<>>]

GhostIndex(g, e) == (CHOOSE i \in 1 .. Len(g.ghosts) : g.ghosts[i].elem = e) - 1

QuadrantsOffset(p, t) == Cardinality({e \in LocalElems(p) : forest.tree[e] < t})

(* ---------------- the callbacks of p4est_iterate ---------------- *)
(* a side as the face callback sees it on process p *)
IterSide(p, g, s) ==
  LET e == s.elems[1]
      local == e \in LocalElems(p)
  IN [is_hanging |-> s.is_hanging,
      is_ghost |-> ~local,
      treeid |-> forest.tree[e],
      face |-> s.face,
      quadid |-> IF local THEN LocalNum(e) - QuadrantsOffset(p, forest.tree[e])
                 ELSE IF g.present THEN GhostIndex(g, e) ELSE -1]

FaceInfo(p, g, c) ==
  [cb |-> "face", conn |-> c,
   sides |-> [i \in 1 .. Len(forest.conns[c]) |-> IterSide(p, g, forest.conns[c][i])]]

(* every element in order, each followed by the connections whose last local *)
(* element it is                                                             *)
ConnsAfter(p, e) ==
  SortedSeq({c \in ConnIds :
               /\ e \in ElemsOfConn(c)
               /\ \A x \in ElemsOfConn(c) \cap LocalElems(p) : x <= e})

RECURSIVE Callbacks(_, _, _)
Callbacks(p, g, e) ==
  IF e >= gfq[p + 2] THEN <<>>
  ELSE <<[cb |-> "volume", conn |-> 0, sides |-> <<>>]>>
       \o [i \in 1 .. Len(ConnsAfter(p, e)) |-> FaceInfo(p, g, ConnsAfter(p, e)[i])]
       \o Callbacks(p, g, e + 1)

(* ---------------- construction: p4est_trimesh_new up to p4est_iterate ---------------- *)
(* memory handed out by P4EST_ALLOC / sc_array_resize holds no value yet: the *)
(* model marks it with a value no index, position or rank can take          *)
Uninit == 0 - 2 ^ 30

(* the walk reading the first offset of a rank where it needs the last *)
RECURSIVE GhostRankWalkFirst(_, _, _, _)
GhostRankWalkFirst(offs, s, q, w) ==
  IF q >= s THEN w
  ELSE LET ng == offs[q]
       IN GhostRankWalkFirst(offs, s, q + 1,
            [tab |-> [g \in DOMAIN w.tab |->
                        IF w.lg <= g /\ g < ng THEN q ELSE w.tab[g]],
             lg |-> IF w.lg < ng THEN ng ELSE w.lg])

RECURSIVE GhostRankWalk(_, _, _, _)
GhostRankWalk(offs, s, q, w) ==
  IF q >= s THEN w
  ELSE LET ng == offs[q + 1]
       IN GhostRankWalk(offs, s, q + 1,
            [tab |-> [g \in DOMAIN w.tab |->
                        IF w.lg <= g /\ g < ng THEN q ELSE w.tab[g]],
             lg |-> IF w.lg < ng THEN ng ELSE w.lg])

GhostRankTable(offs, s, nghosts) ==
  GhostRankWalk(offs, s, 0, [tab |-> [g \in 0 .. (nghosts - 1) |-> Uninit], lg |-> 0])

VNodes(wf) == VNodesCorner + (IF wf THEN VNodesFaces ELSE 0)

MetaInit(g, s) ==
  [lenum |-> 0, num_owned |-> 0, num_shared |-> 0,
   ghost_rank |-> IF g.present
                  THEN GhostRankTable(g.proc_offsets, s, Len(g.ghosts)).tab
                  ELSE <<>>,
   proc_peer |-> [q \in 0 .. (s - 1) |-> 0],
   remotepos |-> <<>>, peers |-> <<>>, pereq |-> <<>>, goffset |-> <<>>]

LnodesInit(le, vn) ==
  [vnodes |-> vn,
   num_local_elements |-> le,
   element_nodes |-> [i \in 0 .. (le * vn - 1) |-> 0],
   owned_count |-> 0, global_owned_count |-> <<>>, global_offset |-> 0]

Init ==
  /\ \/ forest \in Strips /\ mpisize \in 1 .. MaxProcs
     \/ forest \in Refined /\ mpisize \in 1 .. MaxRefinedProcs
  /\ gfq \in Partitions(forest.ne, mpisize)
  /\ with_faces \in BOOLEAN
  /\ ghost \in {[p \in Procs |-> GhostLayer(p)]}
               \cup (IF mpisize = 1 THEN {[p \in Procs |-> NoGhostLayer]} ELSE {})
  /\ quadrants_offset = [p \in Procs |->
                           [t \in {forest.tree[e] : e \in Elems} |-> QuadrantsOffset(p, t)]]
  /\ pc = [p \in Procs |-> "iterate"]
  /\ iter = [p \in Procs |-> Callbacks(p, ghost[p], gfq[p + 1])]
  /\ me = [p \in Procs |-> MetaInit(ghost[p], mpisize)]
  /\ ln = [p \in Procs |-> LnodesInit(gfq[p + 2] - gfq[p + 1], VNodes(with_faces))]
  /\ owner = [p \in Procs |-> [c \in ConnIds |-> -1]]
  /\ nwtotal = [p \in Procs |-> 0]
  /\ gathered = [p \in Procs |-> -1]
  /\ net = {}

(* ---------------- helpers of the enumeration ---------------- *)
SetLnodesCornerCenter(lnr, le, lni) ==
  [lnr EXCEPT !.element_nodes[le * lnr.vnodes + 0] = lni]

(* the face slots packed one per face *)
PosLnodesFaceFullDense(face) == FaceFullBase + face

PosLnodesFaceFull(face) == FaceFullBase + 2 * face

SetLnodesFaceFull(S, le, face, lni) ==
  LET lpos == le * S.ln.vnodes + PosLnodesFaceFull(face)
  IN [me |-> [S.me EXCEPT !.remotepos = IF lni < 0 THEN Append(@, lpos) ELSE @],
      ln |-> [S.ln EXCEPT !.element_nodes[lpos] = lni]]

NewPeer(q) ==
  [rank |-> q, done |-> 0, lastadd |-> 0, bufcount |-> 0,
   localind |-> <<>>, querypos |-> <<>>]

PeerAccess(mer, q) ==
  IF mer.proc_peer[q] = 0
  THEN [mer EXCEPT !.peers = Append(@, NewPeer(q)),
                   !.proc_peer[q] = Len(mer.peers) + 1]
  ELSE mer

(* the reply is noted but not counted *)
PeerAddReplyUncounted(peer, lni) ==
  IF peer.lastadd # lni THEN [peer EXCEPT !.lastadd = lni] ELSE peer

PeerAddReply(peer, lni) ==
  IF peer.lastadd # lni
  THEN [peer EXCEPT !.bufcount = @ + 1, !.lastadd = lni]
  ELSE peer

(* the query recorded without looking at the last index *)
PeerAddQueryAlways(peer, gpos, lni) ==
  [peer EXCEPT !.localind = Append(@, lni),
               !.querypos = Append(@, gpos),
               !.lastadd = lni]

(* the query is counted as a reply obligation as well *)
PeerAddQueryCounted(peer, gpos, lni) ==
  IF peer.lastadd # lni
  THEN [peer EXCEPT !.localind = Append(@, lni),
                    !.querypos = Append(@, gpos),
                    !.bufcount = @ + 1,
                    !.lastadd = lni]
  ELSE peer

PeerAddQuery(peer, gpos, lni) ==
  IF peer.lastadd # lni
  THEN [peer EXCEPT !.localind = Append(@, lni),
                    !.querypos = Append(@, gpos),
                    !.lastadd = lni]
  ELSE peer

(* ---------------- the enumeration: iter_volume1, iter_face1 ---------------- *)
Visiting(p, kind) ==
  /\ pc[p] = "iterate"
  /\ iter[p] # <<>>
  /\ Head(iter[p]).cb = kind

(* the element interior visited without taking an owned index *)
IterVolume1Unnumbered(p) ==
  /\ Visiting(p, "volume")
  /\ ln' = [ln EXCEPT ![p] = SetLnodesCornerCenter(@, me[p].lenum, me[p].num_owned)]
  /\ me' = [me EXCEPT ![p].lenum = @ + 1]
  /\ iter' = [iter EXCEPT ![p] = Tail(@)]
  /\ UNCHANGED <<inputs, pc, owner, nwtotal, gathered, net>>

IterVolume1(p) ==
  /\ Visiting(p, "volume")
  /\ ln' = [ln EXCEPT ![p] = SetLnodesCornerCenter(@, me[p].lenum, me[p].num_owned)]
  /\ me' = [me EXCEPT ![p].lenum = @ + 1, ![p].num_owned = @ + 1]
  /\ iter' = [iter EXCEPT ![p] = Tail(@)]
  /\ UNCHANGED <<inputs, pc, owner, nwtotal, gathered, net>>

(* lines 249-250, 319-320: the local element number of a local side *)
LocalElement(p, fs) == quadrants_offset[p][fs.treeid] + fs.quadid

(* lines 240-254: a boundary face *)
IterFace1Boundary(p) ==
  /\ Visiting(p, "face")
  /\ Len(Head(iter[p]).sides) = 1
  /\ IF with_faces
     THEN LET fs == Head(iter[p]).sides[1]
              S == SetLnodesFaceFull([me |-> me[p], ln |-> ln[p]],
                                     LocalElement(p, fs), fs.face, me[p].num_owned)
          IN /\ me' = [me EXCEPT ![p] = [S.me EXCEPT !.num_owned = @ + 1]]
             /\ ln' = [ln EXCEPT ![p] = S.ln]
     ELSE UNCHANGED <<me, ln>>
  /\ iter' = [iter EXCEPT ![p] = Tail(@)]
  /\ UNCHANGED <<inputs, pc, owner, nwtotal, gathered, net>>

(* lines 285-298: the rank of a side, -1 when it is not known *)
SideRank(p, fu, ghost_rank) ==
  IF ~fu.is_ghost THEN p
  ELSE IF fu.quadid >= 0 THEN ghost_rank[fu.quadid] ELSE -1

(* the position taken from the ghost's number in the whole forest *)
GhostPosByElem(gquad, vnodes, face) == gquad.elem * vnodes + PosLnodesFaceFull(face)

(* lines 295-296: the position of the face node inside the owner's slot array *)
GhostPos(gquad, vnodes, face) == gquad.local_num * vnodes + PosLnodesFaceFull(face)

(* the ownership loop keeping the higher rank *)
ExamineSideMax(fu, q, gp, i, acc) ==
  [is_owned |-> IF q >= 0 /\ q > acc.owner THEN FALSE ELSE acc.is_owned,
   owner |-> IF q >= 0 /\ q > acc.owner THEN q ELSE acc.owner,
   is_shared |-> IF fu.is_ghost /\ fu.quadid >= 0 THEN TRUE ELSE acc.is_shared,
   sharers |-> [acc.sharers EXCEPT ![i] = q],
   gpos |-> [acc.gpos EXCEPT ![i] = gp]]

(* lines 281-307: one round of the ownership loop *)
ExamineSide(fu, q, gp, i, acc) ==
  [is_owned |-> IF q >= 0 /\ q < acc.owner THEN FALSE ELSE acc.is_owned,
   owner |-> IF q >= 0 /\ q < acc.owner THEN q ELSE acc.owner,
   is_shared |-> IF fu.is_ghost /\ fu.quadid >= 0 THEN TRUE ELSE acc.is_shared,
   sharers |-> [acc.sharers EXCEPT ![i] = q],
   gpos |-> [acc.gpos EXCEPT ![i] = gp]]

SideGhostPos(p, fu, vnodes) ==
  IF fu.is_ghost /\ fu.quadid >= 0
  THEN GhostPos(ghost[p].ghosts[fu.quadid + 1], vnodes, fu.face)
  ELSE -1

FaceOwnership(p, sides, ghost_rank, vnodes) ==
  ExamineSide(sides[2], SideRank(p, sides[2], ghost_rank),
              SideGhostPos(p, sides[2], vnodes), 2,
    ExamineSide(sides[1], SideRank(p, sides[1], ghost_rank),
                SideGhostPos(p, sides[1], vnodes), 1,
      [is_owned |-> TRUE, is_shared |-> FALSE, owner |-> p,
       sharers |-> <<-1, -1>>, gpos |-> <<-1, -1>>]))

(* lines 326-345: record the node with the peer of a remote side *)
RecordPeer(mer, q, is_owned, is_owner, gp, lni) ==
  [mer EXCEPT !.peers[mer.proc_peer[q]] =
     IF is_owned THEN PeerAddReply(@, lni)
     ELSE IF is_owner THEN PeerAddQuery(@, gp, lni)
     ELSE @]

(* lines 316-354: one round of the recording loop *)
RecordSide(p, le, face, q, is_owned, is_owner, gp, lni, S) ==
  IF q = p
  THEN SetLnodesFaceFull(S, le, face, lni)
  ELSE IF q >= 0
       THEN [S EXCEPT !.me = RecordPeer(PeerAccess(@, q), q, is_owned, is_owner, gp, lni)]
       ELSE S

(* the placeholder with the sign of the counter slipped *)
FaceNodeSignSlip(mer, is_owned) ==
  IF is_owned THEN mer.num_owned ELSE -1 + mer.num_shared

(* lines 308-315: the local node number of the face node *)
FaceNode(mer, is_owned) ==
  IF is_owned THEN mer.num_owned ELSE -1 - mer.num_shared

CountFaceNode(mer, is_owned) ==
  IF is_owned THEN [mer EXCEPT !.num_owned = @ + 1]
  ELSE [mer EXCEPT !.num_shared = @ + 1]

RecordSides(p, sides, acc, lni, S) ==
  RecordSide(p, LocalElement(p, sides[2]), sides[2].face, acc.sharers[2],
             acc.is_owned, acc.sharers[2] = acc.owner, acc.gpos[2], lni,
    RecordSide(p, LocalElement(p, sides[1]), sides[1].face, acc.sharers[1],
               acc.is_owned, acc.sharers[1] = acc.owner, acc.gpos[1], lni, S))

(* lines 275-358: a connection of two full-size sides *)
IterFace1Full(p) ==
  /\ Visiting(p, "face")
  /\ Len(Head(iter[p]).sides) = 2
  /\ \A i \in 1 .. 2 : ~Head(iter[p]).sides[i].is_hanging
  /\ IF with_faces
     THEN LET acc == FaceOwnership(p, Head(iter[p]).sides, me[p].ghost_rank,
                                   ln[p].vnodes)
              S == RecordSides(p, Head(iter[p]).sides, acc,
                               FaceNode(me[p], acc.is_owned),
                               [me |-> CountFaceNode(me[p], acc.is_owned),
                                ln |-> ln[p]])
          IN /\ me' = [me EXCEPT ![p] = S.me]
             /\ ln' = [ln EXCEPT ![p] = S.ln]
             /\ owner' = [owner EXCEPT ![p][Head(iter[p]).conn] = acc.owner]
     ELSE UNCHANGED <<me, ln, owner>>
  /\ iter' = [iter EXCEPT ![p] = Tail(@)]
  /\ UNCHANGED <<inputs, pc, nwtotal, gathered, net>>

(* lines 360-397: a hanging connection; the code fills only its local arrays *)
IterFace1Hanging(p) ==
  /\ Visiting(p, "face")
  /\ \E i \in 1 .. Len(Head(iter[p]).sides) : Head(iter[p]).sides[i].is_hanging
  /\ iter' = [iter EXCEPT ![p] = Tail(@)]
  /\ UNCHANGED <<inputs, pc, me, ln, owner, nwtotal, gathered, net>>

IterFace1(p) == IterFace1Boundary(p) \/ IterFace1Full(p) \/ IterFace1Hanging(p)

EnumDone(p) == pc[p] = "iterate" /\ iter[p] = <<>>

(* ---------------- the transport ---------------- *)
NullReq == [kind |-> "null", tag |-> "none", complete |-> FALSE]
Request(kind, tag) == [kind |-> kind, tag |-> tag, complete |-> FALSE]

MsgSeq(src, dst, tag) ==
  Cardinality({m \in net : m.src = src /\ m.dst = dst /\ m.tag = tag})

Message(src, dst, tag, data) ==
  [src |-> src, dst |-> dst, tag |-> tag, seq |-> MsgSeq(src, dst, tag),
   data |-> data, delivered |-> FALSE]

ScArrayResize(arr, n) == [i \in 1 .. n |-> IF i <= Len(arr) THEN arr[i] ELSE Uninit]

(* the buffer resized to bufcount for every peer *)
PostPeerResizeAll(p, peer) ==
  IF peer.rank > p
  THEN [peer EXCEPT !.querypos = ScArrayResize(@, peer.bufcount), !.done = 1]
  ELSE [peer EXCEPT !.querypos = ScArrayResize(@, peer.bufcount),
                    !.bufcount = Len(peer.querypos), !.done = 3]

(* ---------------- post_query_reply ---------------- *)
PostPeer(p, peer) ==
  IF peer.rank > p
  THEN [peer EXCEPT !.querypos = ScArrayResize(@, peer.bufcount), !.done = 1]
  ELSE [peer EXCEPT !.bufcount = Len(peer.querypos), !.done = 3]

(* a receive posted towards every peer *)
PostRequestRecv(p, peer) == Request("recv", "QUERY")

PostRequest(p, peer) ==
  IF peer.rank > p THEN Request("recv", "QUERY") ELSE Request("send", "QUERY")

PostQueryReply(p) ==
  /\ EnumDone(p)
  /\ me' = [me EXCEPT
              ![p].peers = [iz \in 1 .. Len(me[p].peers) |-> PostPeer(p, me[p].peers[iz])],
              ![p].pereq = [iz \in 1 .. Len(me[p].peers) |-> PostRequest(p, me[p].peers[iz])]]
  /\ net' = net \cup
       {Message(p, me[p].peers[iz].rank, "QUERY", me[p].peers[iz].querypos) :
          iz \in {k \in 1 .. Len(me[p].peers) : ~(me[p].peers[k].rank > p)}}
  /\ pc' = [pc EXCEPT ![p] = "allgather"]
  /\ UNCHANGED <<inputs, iter, ln, owner,
                 nwtotal, gathered>>

(* ---------------- lines 603-617: share owned count ---------------- *)
RECURSIVE GoffsetWalk(_, _, _, _, _)
GoffsetWalk(goc, s, q, gc, tab) ==
  IF q >= s THEN tab
  ELSE GoffsetWalk(goc, s, q + 1, gc + goc[q], [tab EXCEPT ![q + 1] = gc + goc[q]])

(* the offsets without the running sum *)
GoffsetNoCarry(goc, s) == [i \in 0 .. s |-> IF i = 0 THEN 0 ELSE goc[i - 1]]

Goffset(goc, s) ==
  GoffsetWalk(goc, s, 0, 0, [i \in 0 .. s |-> IF i = 0 THEN 0 ELSE Uninit])

(* the exchange entered only when the posted requests have completed *)
AllgatherEnterBlocking(p) ==
  /\ pc[p] = "allgather"
  /\ \A j \in 1 .. Len(me[p].pereq) : me[p].pereq[j].complete
  /\ ln' = [ln EXCEPT ![p].owned_count = me[p].num_owned]
  /\ gathered' = [gathered EXCEPT ![p] = me[p].num_owned]
  /\ pc' = [pc EXCEPT ![p] = "gathering"]
  /\ UNCHANGED <<inputs, iter, me, owner, nwtotal, net>>

AllgatherEnter(p) ==
  /\ pc[p] = "allgather"
  /\ ln' = [ln EXCEPT ![p].owned_count = me[p].num_owned]
  /\ gathered' = [gathered EXCEPT ![p] = me[p].num_owned]
  /\ pc' = [pc EXCEPT ![p] = "gathering"]
  /\ UNCHANGED <<inputs, iter, me, owner,
                 nwtotal, net>>

AllgatherReturn(p) ==
  /\ pc[p] = "gathering"
  /\ \A q \in Procs : gathered[q] >= 0
  /\ LET goc == [q \in Procs |-> gathered[q]]
         goff == Goffset(goc, mpisize)
     IN /\ ln' = [ln EXCEPT ![p].global_owned_count = goc,
                             ![p].global_offset = goff[p]]
        /\ me' = [me EXCEPT ![p].goffset = goff]
  /\ pc' = [pc EXCEPT ![p] = "wait_begin"]
  /\ UNCHANGED <<inputs, iter, owner,
                 nwtotal, gathered, net>>

(* ---------------- completion of sends and receives ---------------- *)
SendRequestOf(m) ==
  LET j == me[m.src].proc_peer[m.dst]
  IN IF j > 0 /\ j <= Len(me[m.src].pereq)
        /\ me[m.src].pereq[j].kind = "send"
        /\ me[m.src].pereq[j].tag = m.tag
        /\ ~me[m.src].pereq[j].complete
     THEN j ELSE 0

RecvRequestOf(m) ==
  LET j == me[m.dst].proc_peer[m.src]
  IN IF j > 0 /\ j <= Len(me[m.dst].pereq)
        /\ me[m.dst].pereq[j].kind = "recv"
        /\ me[m.dst].pereq[j].tag = m.tag
        /\ ~me[m.dst].pereq[j].complete
     THEN j ELSE 0

(* a send completes before its receive is matched: the transport buffered it *)
SendBuffered(m) ==
  /\ m \in net
  /\ ~m.delivered
  /\ SendRequestOf(m) > 0
  /\ me' = [me EXCEPT ![m.src].pereq[SendRequestOf(m)].complete = TRUE]
  /\ UNCHANGED <<inputs, pc, iter, ln, owner,
                 nwtotal, gathered, net>>

Received(buf, data) ==
  [i \in 1 .. Len(buf) |-> IF i <= Len(data) THEN data[i] ELSE buf[i]]

(* a posted receive takes the oldest message of its source and tag *)
Deliver(m) ==
  /\ m \in net
  /\ ~m.delivered
  /\ \A o \in net : (o.src = m.src /\ o.dst = m.dst /\ o.tag = m.tag /\ ~o.delivered)
                      => m.seq <= o.seq
  /\ RecvRequestOf(m) > 0
  /\ LET jr == RecvRequestOf(m)
         js == SendRequestOf(m)
         recvd == [me[m.dst] EXCEPT !.pereq[jr].complete = TRUE,
                                    !.peers[jr].querypos = Received(@, m.data)]
     IN /\ me' = [r \in Procs |->
                    IF r = m.dst THEN recvd
                    ELSE IF r = m.src /\ js > 0
                         THEN [me[r] EXCEPT !.pereq[js].complete = TRUE]
                         ELSE me[r]]
        /\ pc' = IF Len(m.data) > Len(me[m.dst].peers[jr].querypos)
                 THEN [pc EXCEPT ![m.dst] = "abort"]
                 ELSE pc
  /\ net' = (net \ {m}) \cup {[m EXCEPT !.delivered = TRUE]}
  /\ UNCHANGED <<inputs, iter, ln, owner,
                 nwtotal, gathered>>

(* ---------------- wait_query_reply ---------------- *)
(* lines 462-464 *)
WaitBegin(p) ==
  /\ pc[p] = "wait_begin"
  /\ nwtotal' = [nwtotal EXCEPT ![p] = Len(me[p].peers)]
  /\ pc' = [pc EXCEPT ![p] = IF Len(me[p].peers) > 0 THEN "wait" ELSE "finalize"]
  /\ UNCHANGED <<inputs, iter, me, ln, owner,
                 gathered, net>>

(* the position handed back in place of the slot it names *)
LookupNodeEcho(en, gpos) == gpos

(* line 492: the slot an incoming position names *)
LookupNode(en, gpos) == IF gpos \in DOMAIN en THEN en[gpos] ELSE Uninit

(* the loop over the buffer stopping one entry early *)
ResolveQueryShort(peer, en) ==
  [i \in 1 .. Len(peer.querypos) |->
     IF i < peer.bufcount THEN LookupNode(en, peer.querypos[i]) ELSE peer.querypos[i]]

(* lines 483-495: resolve the positions of a received query in place *)
ResolveQuery(peer, en) ==
  [i \in 1 .. Len(peer.querypos) |->
     IF i <= peer.bufcount THEN LookupNode(en, peer.querypos[i]) ELSE peer.querypos[i]]

(* a received query answered without advancing the state of the peer *)
HandleCompletionStuck(p, peer, en) ==
  IF peer.rank > p
  THEN IF peer.done = 1
       THEN [peer |-> [peer EXCEPT !.querypos = ResolveQuery(peer, en)],
             req |-> Request("send", "REPLY"),
             out |-> {Message(p, peer.rank, "REPLY",
                              SubSeq(ResolveQuery(peer, en), 1, peer.bufcount))},
             fin |-> 0]
       ELSE [peer |-> [peer EXCEPT !.done = 0],
             req |-> NullReq, out |-> {}, fin |-> 1]
  ELSE IF peer.done = 3
       THEN [peer |-> [peer EXCEPT !.done = 4],
             req |-> Request("recv", "REPLY"), out |-> {}, fin |-> 0]
       ELSE [peer |-> [peer EXCEPT !.done = 0],
             req |-> NullReq, out |-> {}, fin |-> 1]

(* the query send of a lower peer taken for the end of the exchange *)
HandleCompletionSkip(p, peer, en) ==
  IF peer.rank > p
  THEN IF peer.done = 1
       THEN [peer |-> [peer EXCEPT !.querypos = ResolveQuery(peer, en), !.done = 2],
             req |-> Request("send", "REPLY"),
             out |-> {Message(p, peer.rank, "REPLY",
                              SubSeq(ResolveQuery(peer, en), 1, peer.bufcount))},
             fin |-> 0]
       ELSE [peer |-> [peer EXCEPT !.done = 0],
             req |-> NullReq, out |-> {}, fin |-> 1]
  ELSE [peer |-> [peer EXCEPT !.done = 0],
        req |-> NullReq, out |-> {}, fin |-> 1]

(* lines 476-526: what a reported completion does to its peer *)
HandleCompletion(p, peer, en) ==
  IF peer.rank > p
  THEN IF peer.done = 1
       THEN [peer |-> [peer EXCEPT !.querypos = ResolveQuery(peer, en), !.done = 2],
             req |-> Request("send", "REPLY"),
             out |-> {Message(p, peer.rank, "REPLY",
                              SubSeq(ResolveQuery(peer, en), 1, peer.bufcount))},
             fin |-> 0]
       ELSE [peer |-> [peer EXCEPT !.done = 0],
             req |-> NullReq, out |-> {}, fin |-> 1]
  ELSE IF peer.done = 3
       THEN [peer |-> [peer EXCEPT !.done = 4],
             req |-> Request("recv", "REPLY"), out |-> {}, fin |-> 0]
       ELSE [peer |-> [peer EXCEPT !.done = 0],
             req |-> NullReq, out |-> {}, fin |-> 1]

Completed(p) == {j \in 1 .. Len(me[p].pereq) : me[p].pereq[j].complete}
Active(p) == {j \in 1 .. Len(me[p].pereq) : me[p].pereq[j].kind # "null"}

RECURSIVE SumOver(_, _)
SumOver(f, S) ==
  IF S = {} THEN 0
  ELSE LET x == CHOOSE y \in S : TRUE IN f[x] + SumOver(f, S \ {x})

(* the loop writing into the slot array when a reply has arrived *)
WaitSomePatching(p, S) ==
  /\ pc[p] = "wait"
  /\ nwtotal[p] > 0
  /\ S # {}
  /\ S \subseteq Completed(p)
  /\ LET h == [j \in S |-> HandleCompletion(p, me[p].peers[j], ln[p].element_nodes)]
         left == nwtotal[p] - SumOver([j \in S |-> h[j].fin], S)
     IN /\ me' = [me EXCEPT
                    ![p].peers = [j \in 1 .. Len(me[p].peers) |->
                                    IF j \in S THEN h[j].peer ELSE me[p].peers[j]],
                    ![p].pereq = [j \in 1 .. Len(me[p].pereq) |->
                                    IF j \in S THEN h[j].req ELSE me[p].pereq[j]]]
        /\ net' = net \cup UNION {h[j].out : j \in S}
        /\ nwtotal' = [nwtotal EXCEPT ![p] = left]
        /\ pc' = [pc EXCEPT ![p] = IF left > 0 THEN "wait" ELSE "finalize"]
  /\ ln' = [ln EXCEPT ![p].element_nodes =
              [i \in DOMAIN @ |->
                 IF @[i] < 0 /\ \E j \in S : me[p].peers[j].done = 4
                 THEN 0 - @[i] ELSE @[i]]]
  /\ UNCHANGED <<inputs, iter, owner, gathered>>

(* lines 464-528: one round of the loop, MPI_Waitsome reporting the requests S *)
WaitSome(p, S) ==
  /\ pc[p] = "wait"
  /\ nwtotal[p] > 0
  /\ S # {}
  /\ S \subseteq Completed(p)
  /\ LET h == [j \in S |-> HandleCompletion(p, me[p].peers[j], ln[p].element_nodes)]
         left == nwtotal[p] - SumOver([j \in S |-> h[j].fin], S)
     IN /\ me' = [me EXCEPT
                    ![p].peers = [j \in 1 .. Len(me[p].peers) |->
                                    IF j \in S THEN h[j].peer ELSE me[p].peers[j]],
                    ![p].pereq = [j \in 1 .. Len(me[p].pereq) |->
                                    IF j \in S THEN h[j].req ELSE me[p].pereq[j]]]
        /\ net' = net \cup UNION {h[j].out : j \in S}
        /\ nwtotal' = [nwtotal EXCEPT ![p] = left]
        /\ pc' = [pc EXCEPT ![p] = IF left > 0 THEN "wait" ELSE "finalize"]
  /\ UNCHANGED <<inputs, iter, ln, owner, gathered>>

(* line 469: MPI_Waitsome without an active request reports no completion *)
WaitNone(p) ==
  /\ pc[p] = "wait"
  /\ nwtotal[p] > 0
  /\ Active(p) = {}
  /\ pc' = [pc EXCEPT ![p] = "abort"]
  /\ UNCHANGED <<inputs, iter, me, ln, owner,
                 nwtotal, gathered, net>>

WaitQueryReply(p) ==
  IF pc[p] = "wait" /\ nwtotal[p] > 0 /\ Active(p) = {}
  THEN WaitNone(p)
  ELSE \E S \in SUBSET Completed(p) : WaitSome(p, S)

(* ---------------- lines 624-641: free memory ---------------- *)
Cleanup(p) ==
  /\ pc[p] = "finalize"
  /\ me' = [me EXCEPT
              ![p] = IF ghost[p].present
                     THEN [@ EXCEPT !.goffset = <<>>, !.remotepos = <<>>,
                                    !.peers = <<>>, !.pereq = <<>>,
                                    !.proc_peer = [q \in Procs |-> 0],
                                    !.ghost_rank = <<>>]
                     ELSE [@ EXCEPT !.goffset = <<>>]]
  /\ pc' = [pc EXCEPT ![p] = "done"]
  /\ UNCHANGED <<inputs, iter, ln, owner,
                 nwtotal, gathered, net>>

(* ---------------- the system ---------------- *)
Iterate == \E p \in Procs : IterVolume1(p) \/ IterFace1(p)
Post == \E p \in Procs : PostQueryReply(p)
Allgather == \E p \in Procs : AllgatherEnter(p) \/ AllgatherReturn(p)
Transport == \E m \in net : SendBuffered(m) \/ Deliver(m)
Wait == \E p \in Procs : WaitBegin(p) \/ WaitQueryReply(p)
Free == \E p \in Procs : Cleanup(p)

Next == Iterate \/ Post \/ Allgather \/ Transport \/ Wait \/ Free

Spec == Init /\ [][Next]_vars

(* the scheduling: the ranks keep running and the transport keeps completing *)
(* operations, so a step that stays possible is eventually taken             *)
LiveSpec == Init /\ [][Next]_vars /\ WF_vars(Next)

(* ---------------- notions used by the properties ---------------- *)
PeerOf(p, q) == me[p].peers[me[p].proc_peer[q]]
HasPeer(p, q) == me[p].proc_peer[q] > 0
Drained(p) ==
  /\ nwtotal[p] = 0
  /\ \A j \in 1 .. Len(me[p].peers) : me[p].peers[j].done = 0

(* the connections of two full-size sides hosted by the ranks p and q *)
SharedConns(p, q) ==
  {c \in ConnIds :
     /\ Len(forest.conns[c]) = 2
     /\ ~IsHangingConn(c)
     /\ {OwnerOf(e) : e \in ElemsOfConn(c)} = {p, q}}

(* the side of connection c that rank p hosts, and its face slot on p *)
SideOf(p, c) ==
  CHOOSE s \in {forest.conns[c][i] : i \in 1 .. Len(forest.conns[c])} :
    OwnerOf(s.elems[1]) = p
FacePos(p, c) == LocalNum(SideOf(p, c).elems[1]) * VNodes(with_faces)
                 + FaceFullBase + 2 * SideOf(p, c).face
FaceSlot(p, c) == ln[p].element_nodes[FacePos(p, c)]

(* ---------------- C1 ---------------- *)
(* C1: on a reliable transport every rank's draining loop ends, whatever the  *)
(* order of the completions: every rank reaches the end of wait_query_reply   *)
(* with its outstanding-peer counter at zero and every peer at done == 0.     *)
C1_Termination ==
  <>(\A p \in Procs : pc[p] \in {"finalize", "done"} /\ Drained(p))

C1_Witness ==
  \E p \in Procs :
    /\ pc[p] = "finalize"
    /\ Len(me[p].peers) = 2
    /\ Drained(p)
    /\ \E j, k \in 1 .. 2 : me[p].peers[j].rank < p /\ me[p].peers[k].rank > p

(* ---------------- C2 ---------------- *)
MinOf(S) == CHOOSE x \in S : \A y \in S : x <= y

TouchingRanks(c) == {OwnerOf(e) : e \in ElemsOfConn(c)}
IsSharedFace(c) ==
  /\ Len(forest.conns[c]) = 2
  /\ ~IsHangingConn(c)
  /\ Cardinality(TouchingRanks(c)) = 2
Visited(p, c) == owner[p][c] # -1

(* C2: with face nodes enabled, every rank that touches the face node of a    *)
(* conforming face between two ranks resolves the minimum touching rank as    *)
(* its owner; that rank alone gives the node an owned index (>= 0), the other *)
(* one a negative placeholder.                                                *)
C2_OwnerIsMinRank ==
  with_faces =>
    \A c \in ConnIds : IsSharedFace(c) =>
      \A p \in TouchingRanks(c) : Visited(p, c) =>
        /\ owner[p][c] = MinOf(TouchingRanks(c))
        /\ (p = MinOf(TouchingRanks(c))) <=> (FaceSlot(p, c) >= 0)
        /\ (p # MinOf(TouchingRanks(c))) <=> (FaceSlot(p, c) < 0)

C2_Witness ==
  /\ with_faces
  /\ \E c \in ConnIds :
       /\ IsSharedFace(c)
       /\ \A p \in TouchingRanks(c) : Visited(p, c)
       /\ \E p, q \in TouchingRanks(c) :
            p < q /\ FaceSlot(p, c) > 0 /\ FaceSlot(q, c) < 0 /\ owner[q][c] = p

(* ---------------- C3 ---------------- *)
QueryOf(q, p) ==
  CHOOSE m \in net : m.src = q /\ m.dst = p /\ m.tag = "QUERY"
HasQuery(q, p) == \E m \in net : m.src = q /\ m.dst = p /\ m.tag = "QUERY"

(* C3: once rank q has finished draining, the i-th value of its buffer for a  *)
(* lower peer p is the index p holds at the i-th position q queried, and the  *)
(* value that came back for q's placeholder of a shared face is p's owned     *)
(* index of that same face.                                                   *)
C3_RoundTrip ==
  \A q \in Procs : pc[q] = "finalize" =>
    \A p \in Procs : (p < q /\ HasPeer(q, p)) =>
      /\ HasQuery(q, p)
      /\ Len(PeerOf(q, p).querypos) = Len(QueryOf(q, p).data)
      /\ \A i \in 1 .. Len(QueryOf(q, p).data) :
           /\ QueryOf(q, p).data[i] \in DOMAIN ln[p].element_nodes
           /\ PeerOf(q, p).querypos[i] = ln[p].element_nodes[QueryOf(q, p).data[i]]
           /\ PeerOf(q, p).querypos[i] > 0
      /\ \A c \in SharedConns(p, q) :
           \E i \in 1 .. Len(PeerOf(q, p).localind) :
             /\ PeerOf(q, p).localind[i] = FaceSlot(q, c)
             /\ PeerOf(q, p).querypos[i] = FaceSlot(p, c)

C3_Witness ==
  \E q \in Procs : \E p \in Procs :
    /\ pc[q] = "finalize"
    /\ p < q
    /\ HasPeer(q, p)
    /\ Len(PeerOf(q, p).querypos) = 2
    /\ PeerOf(q, p).querypos[1] # PeerOf(q, p).querypos[2]
    /\ \A i \in 1 .. 2 :
         PeerOf(q, p).querypos[i] = ln[p].element_nodes[QueryOf(q, p).data[i]]

(* ---------------- C4 ---------------- *)
(* C4: at the end of the enumeration of both ranks of a pair p < q, p has a   *)
(* record for q exactly if q has one for p, a pair that shares a face node    *)
(* has both, and the reply obligations p counted for q are as many as the     *)
(* positions q recorded for p; the query q sends is as long as the receive p  *)
(* posted for it.                                                             *)
C4_MatchingSizes ==
  /\ \A p \in Procs : \A q \in Procs :
       (p < q /\ EnumDone(p) /\ EnumDone(q)) =>
         /\ HasPeer(p, q) <=> HasPeer(q, p)
         /\ (with_faces /\ SharedConns(p, q) # {}) => HasPeer(p, q)
         /\ HasPeer(p, q) =>
              /\ PeerOf(p, q).bufcount = Len(PeerOf(q, p).querypos)
              /\ PeerOf(p, q).bufcount = Cardinality(SharedConns(p, q))
  /\ \A m \in net :
       (m.tag = "QUERY" /\ pc[m.dst] \notin {"iterate", "done"}) =>
         /\ HasPeer(m.dst, m.src)
         /\ Len(m.data) = PeerOf(m.dst, m.src).bufcount
         /\ Len(m.data) = Len(PeerOf(m.dst, m.src).querypos)

C4_Witness ==
  \E p \in Procs : \E q \in Procs :
    /\ p < q
    /\ EnumDone(p)
    /\ EnumDone(q)
    /\ HasPeer(p, q)
    /\ PeerOf(p, q).bufcount = 2
    /\ Len(PeerOf(q, p).querypos) = 2

(* ---------------- C5 ---------------- *)
EnumerationOver == \A p \in Procs : iter[p] = <<>>
NumOwnedSum == SumOver([p \in Procs |-> me[p].num_owned], Procs)

(* the nodes the numbering places on a connection: the midpoint of a boundary *)
(* or conforming face when face nodes are enabled (lines 241, 276); on a      *)
(* hanging connection nunodes of line 361                                     *)
NodesOnConn(c) ==
  IF IsHangingConn(c) THEN 1 + (IF with_faces THEN 2 ELSE 0)
  ELSE IF with_faces THEN 1 ELSE 0

(* one node inside every element, and the nodes on the connections *)
DistinctNodes == forest.ne + SumOver([c \in ConnIds |-> NodesOnConn(c)], ConnIds)

(* C5: after the enumeration on all ranks the owned counts of the ranks sum   *)
(* up to the number of distinct nodes of the mesh.                            *)
C5_CountConservation == EnumerationOver => NumOwnedSum = DistinctNodes

(* ---------------- C6 ---------------- *)
HasOffsets(p) == pc[p] \in {"wait_begin", "wait", "finalize"}

(* C6: the offsets every rank computes are the exclusive prefix sum of the    *)
(* owned counts: offset[0] = 0, offset[r+1] = offset[r] + owned_count[r], the *)
(* sequence does not decrease, the base offset of rank p is offset[p], the    *)
(* last entry is the total count, and all ranks hold the same table.          *)
C6_ExclusivePrefixSum ==
  \A p \in Procs :
    /\ HasOffsets(p) =>
         /\ DOMAIN me[p].goffset = 0 .. mpisize
         /\ me[p].goffset[0] = 0
         /\ \A r \in Procs :
              /\ me[p].goffset[r + 1] = me[p].goffset[r] + me[r].num_owned
              /\ me[p].goffset[r] <= me[p].goffset[r + 1]
              /\ ln[p].global_owned_count[r] = me[r].num_owned
         /\ ln[p].global_offset = me[p].goffset[p]
         /\ me[p].goffset[mpisize] = NumOwnedSum
         /\ \A q \in Procs : HasOffsets(q) => me[q].goffset = me[p].goffset
    /\ (HasOffsets(p) \/ pc[p] = "done") =>
         /\ ln[p].global_offset =
              SumOver([r \in Procs |-> me[r].num_owned], {r \in Procs : r < p})
         /\ ln[p].owned_count = me[p].num_owned

C6_Witness ==
  /\ mpisize = 3
  /\ \A p \in Procs : HasOffsets(p)
  /\ \A p \in Procs : me[p].goffset[p] < me[p].goffset[p + 1]
  /\ ln[2].global_offset > ln[1].global_offset
  /\ ln[1].global_offset > 0
  /\ me[0].num_owned # me[1].num_owned

(* ---------------- C7 ---------------- *)
BoundaryConns == {c \in ConnIds : Len(forest.conns[c]) = 1}

(* C7: a run of one rank creates no peer record and posts no message, writes  *)
(* only owned (>= 0) indices, keeps num_shared at 0, gives the face node of   *)
(* every boundary face its own owned index, and ends the enumeration with an  *)
(* owned count equal to the number of distinct nodes.                         *)
C7_SingleProcess ==
  mpisize = 1 =>
    /\ me[0].peers = <<>>
    /\ me[0].pereq = <<>>
    /\ me[0].remotepos = <<>>
    /\ net = {}
    /\ me[0].num_shared = 0
    /\ \A i \in DOMAIN ln[0].element_nodes : ln[0].element_nodes[i] >= 0
    /\ (with_faces /\ iter[0] = <<>>) =>
         \A c \in BoundaryConns :
           /\ FaceSlot(0, c) \in 1 .. (me[0].num_owned - 1)
           /\ \A d \in BoundaryConns : (d # c) => FaceSlot(0, d) # FaceSlot(0, c)
    /\ (iter[0] = <<>>) => me[0].num_owned = DistinctNodes

(* ---------------- C8 ---------------- *)
C8_Scenario == forest = Strip(2) /\ mpisize = 2

QueriesFrom(q) == {m \in net : m.src = q /\ m.tag = "QUERY"}
RepliesFrom(p) == {m \in net : m.src = p /\ m.tag = "REPLY"}

ReplyRole(p, peer) ==
  /\ peer.rank > p
  /\ peer.bufcount > 0
  /\ peer.querypos = <<>>
  /\ peer.localind = <<>>

QueryRole(p, peer) ==
  /\ peer.rank < p
  /\ peer.bufcount = 0
  /\ Len(peer.querypos) > 0
  /\ Len(peer.localind) = Len(peer.querypos)

(* C9: when post_query_reply starts on a rank, every peer record either       *)
(* belongs to a higher rank and holds reply obligations and no query          *)
(* position, or belongs to a lower rank and holds query positions and no      *)
(* reply obligation; none holds both or neither.  The posting then opens a    *)
(* receive for the former and a send for the latter.                          *)
C9_OneRolePerPeer ==
  \A p \in Procs : \A j \in 1 .. Len(me[p].peers) :
    /\ EnumDone(p) =>
         /\ ReplyRole(p, me[p].peers[j]) \/ QueryRole(p, me[p].peers[j])
         /\ ~(ReplyRole(p, me[p].peers[j]) /\ QueryRole(p, me[p].peers[j]))
         /\ me[p].peers[j].done = 0
    /\ (pc[p] \in {"allgather", "gathering", "wait_begin"}) =>
         /\ me[p].peers[j].rank > p =>
              (me[p].peers[j].done = 1 /\ me[p].pereq[j].kind = "recv")
         /\ me[p].peers[j].rank < p =>
              (me[p].peers[j].done = 3 /\ me[p].pereq[j].kind = "send")
         /\ me[p].pereq[j].tag = "QUERY"

C9_Witness ==
  \E p \in Procs :
    /\ EnumDone(p)
    /\ Len(me[p].peers) = 2
    /\ \E j, k \in 1 .. 2 :
         ReplyRole(p, me[p].peers[j]) /\ QueryRole(p, me[p].peers[k])

(* ---------------- C10 ---------------- *)
Sharing(p, q) == with_faces /\ p < q /\ SharedConns(p, q) # {}
AllDrained == \A p \in Procs : pc[p] \in {"finalize", "done"}
Messages(src, dst, tag) == {m \in net : m.src = src /\ m.dst = dst /\ m.tag = tag}
Injective(sq) == \A i, j \in 1 .. Len(sq) : (sq[i] = sq[j]) => (i = j)
Range(sq) == {sq[i] : i \in 1 .. Len(sq)}

(* C10: no pair of ranks ever exchanges more than one query and one reply:    *)
(* a query travels from the higher to the lower rank of a pair that shares    *)
(* nodes, a reply the other way and only after the query was received; in a   *)
(* complete run each sharing pair has exchanged exactly one of each, and      *)
(* every shared node of the pair appears exactly once in both.                *)
C10_ExactlyOnce ==
  /\ \A m \in net :
       /\ m.seq = 0
       /\ m.tag = "QUERY" => Sharing(m.dst, m.src)
       /\ m.tag = "REPLY" =>
            /\ Sharing(m.src, m.dst)
            /\ \E o \in Messages(m.dst, m.src, "QUERY") :
                 o.delivered /\ Len(o.data) = Len(m.data)
  /\ AllDrained =>
       \A p \in Procs : \A q \in Procs : Sharing(p, q) =>
         /\ Cardinality(Messages(q, p, "QUERY")) = 1
         /\ Cardinality(Messages(p, q, "REPLY")) = 1
         /\ \A m \in Messages(q, p, "QUERY") :
              /\ m.delivered
              /\ Injective(m.data)
              /\ Range(m.data) = {FacePos(p, c) : c \in SharedConns(p, q)}
         /\ \A m \in Messages(p, q, "REPLY") :
              /\ m.delivered
              /\ Injective(m.data)
              /\ Range(m.data) = {FaceSlot(p, c) : c \in SharedConns(p, q)}

C10_Witness ==
  /\ AllDrained
  /\ \E p \in Procs : \E q \in Procs :
       /\ Sharing(p, q)
       /\ Cardinality(SharedConns(p, q)) = 2
       /\ \E m \in Messages(p, q, "REPLY") : m.delivered /\ Len(m.data) = 2
       /\ \E m \in Messages(q, p, "QUERY") : m.delivered /\ Len(m.data) = 2

(* ---------------- C11 ---------------- *)
DoneOf(mer, j) == IF j <= Len(mer.peers) THEN mer.peers[j].done ELSE 0
NotDone(mer) == {j \in 1 .. Len(mer.peers) : mer.peers[j].done # 0}

(* the steps of done the code takes for a peer of the given rank *)
DoneSteps(p, rank) ==
  IF rank > p THEN {<<0, 1>>, <<1, 2>>, <<2, 0>>} ELSE {<<0, 3>>, <<3, 4>>, <<4, 0>>}

PeerStep(p, j) ==
  /\ (DoneOf(me[p], j) # DoneOf(me'[p], j)) =>
       /\ j <= Len(me[p].peers)
       /\ <<DoneOf(me[p], j), DoneOf(me'[p], j)>> \in DoneSteps(p, me[p].peers[j].rank)
       /\ IF DoneOf(me[p], j) = 0
          THEN EnumDone(p) /\ pc'[p] = "allgather"
          ELSE pc[p] = "wait" /\ me[p].pereq[j].complete
  /\ (j <= Len(me[p].pereq) /\ me[p].pereq[j].complete /\ me'[p].pereq[j] # me[p].pereq[j]) =>
       /\ DoneOf(me[p], j) # 0
       /\ DoneOf(me'[p], j) # DoneOf(me[p], j)

CounterStep(p) ==
  (pc[p] = "wait") =>
    nwtotal'[p] = nwtotal[p] - Cardinality(NotDone(me[p]) \ NotDone(me'[p]))

(* C11: done of a peer of higher rank only steps 0 -> 1 -> 2 -> 0, of a peer  *)
(* of lower rank only 0 -> 3 -> 4 -> 0; the first step is the posting, every  *)
(* later one handles a completed request of that peer, no completion is       *)
(* handled for a peer at done = 0, and inside wait_query_reply the counter    *)
(* drops by one per peer reaching 0 and equals the number of peers not done.  *)
C11_PeerStateMachine ==
  /\ [](\A p \in Procs : (pc[p] \in {"wait", "finalize"}) =>
          nwtotal[p] = Cardinality(NotDone(me[p])))
  /\ [][\A p \in Procs : CounterStep(p) /\ \A j \in 1 .. MaxProcs : PeerStep(p, j)]_vars

C11_Witness ==
  \E p \in Procs :
    /\ pc[p] = "wait"
    /\ Len(me[p].peers) = 2
    /\ nwtotal[p] = 1
    /\ \E j, k \in 1 .. 2 :
         /\ me[p].peers[j].done = 0
         /\ me[p].peers[j].rank > p
         /\ me[p].peers[k].done = 4

(* ---------------- C12 ---------------- *)
OwnedIndex(p, v) == 0 <= v /\ v < ln[p].owned_count

(* a query of peer j has arrived on rank p and is not handled yet *)
QueryArrived(p, j) ==
  /\ pc[p] = "wait"
  /\ me[p].peers[j].rank > p
  /\ me[p].peers[j].done = 1
  /\ me[p].pereq[j].complete

(* C12: when an owner handles a received query, every position of the buffer  *)
(* names a slot of its array that holds an owned index, 0 <= value <          *)
(* owned_count and not the value of an unwritten slot; once handled, every    *)
(* buffer entry holds exactly the value of the slot the query named, and that *)
(* buffer is what the reply carries.                                          *)
C12_ResolutionInOwnedRange ==
  \A p \in Procs : \A j \in 1 .. Len(me[p].peers) :
    /\ QueryArrived(p, j) =>
         /\ Len(me[p].peers[j].querypos) = me[p].peers[j].bufcount
         /\ \A i \in 1 .. me[p].peers[j].bufcount :
              /\ me[p].peers[j].querypos[i] \in DOMAIN ln[p].element_nodes
              /\ OwnedIndex(p, ln[p].element_nodes[me[p].peers[j].querypos[i]])
              /\ ln[p].element_nodes[me[p].peers[j].querypos[i]] # 0
    /\ (me[p].peers[j].rank > p /\ me[p].peers[j].done = 2) =>
         /\ HasQuery(me[p].peers[j].rank, p)
         /\ \A i \in 1 .. me[p].peers[j].bufcount :
              /\ me[p].peers[j].querypos[i] =
                   ln[p].element_nodes[QueryOf(me[p].peers[j].rank, p).data[i]]
              /\ OwnedIndex(p, me[p].peers[j].querypos[i])
         /\ \A m \in Messages(p, me[p].peers[j].rank, "REPLY") :
              m.data = me[p].peers[j].querypos

C12_Witness ==
  \E p \in Procs : \E k \in 1 .. Len(me[p].peers) :
    /\ pc[p] = "wait"
    /\ me[p].peers[k].rank > p
    /\ me[p].peers[k].done = 2
    /\ me[p].peers[k].bufcount = 2
    /\ me[p].peers[k].querypos[1] # me[p].peers[k].querypos[2]
    /\ \A i \in 1 .. 2 : OwnedIndex(p, me[p].peers[k].querypos[i])

(* ---------------- C13 ---------------- *)
(* peer_add_reply and peer_add_query on their own: rank 0 holds the record    *)
(* peer_access made for rank 1 and receives calls with indices and positions  *)
(* drawn from small sets, within what the assertions of lines 158-160 and     *)
(* 172-176 admit; pc[0] tells what the last call was                          *)
DedupIndices == 1 .. MaxIndex
DedupPositions == {PosLnodesFaceFull(f) : f \in 0 .. 1}
DedupPeer == me[0].peers[1]

DedupInit ==
  /\ forest = Strip(2)
  /\ mpisize = 2
  /\ gfq = <<0, 1, 2>>
  /\ with_faces = TRUE
  /\ ghost = [p \in Procs |-> GhostLayer(p)]
  /\ quadrants_offset = [p \in Procs |-> [t \in 0 .. 1 |-> QuadrantsOffset(p, t)]]
  /\ pc = [p \in Procs |-> "created"]
  /\ iter = [p \in Procs |-> <<>>]
  /\ me = [p \in Procs |->
             IF p = 0 THEN PeerAccess(MetaInit(ghost[p], mpisize), 1)
             ELSE MetaInit(ghost[p], mpisize)]
  /\ ln = [p \in Procs |-> LnodesInit(1, VNodes(with_faces))]
  /\ owner = [p \in Procs |-> [c \in ConnIds |-> -1]]
  /\ nwtotal = [p \in Procs |-> 0]
  /\ gathered = [p \in Procs |-> -1]
  /\ net = {}

DedupRoom == DedupPeer.bufcount + Len(DedupPeer.localind) < MaxAdds

CallAddReply(lni) ==
  /\ lni > 0
  /\ DedupPeer.lastadd <= lni
  /\ DedupRoom \/ lni = DedupPeer.lastadd
  /\ me' = [me EXCEPT ![0].peers[1] = PeerAddReply(@, lni)]
  /\ pc' = [pc EXCEPT ![0] = IF lni = DedupPeer.lastadd THEN "repeat" ELSE "reply"]
  /\ UNCHANGED <<inputs, iter, ln, owner, nwtotal, gathered, net>>

CallAddQuery(gpos, lni) ==
  /\ gpos >= 0
  /\ lni < 0
  /\ Len(DedupPeer.localind) = Len(DedupPeer.querypos)
  /\ DedupPeer.lastadd >= lni
  /\ DedupRoom \/ lni = DedupPeer.lastadd
  /\ me' = [me EXCEPT ![0].peers[1] = PeerAddQuery(@, gpos, lni)]
  /\ pc' = [pc EXCEPT ![0] = IF lni = DedupPeer.lastadd THEN "repeat" ELSE "query"]
  /\ UNCHANGED <<inputs, iter, ln, owner, nwtotal, gathered, net>>

DedupNext ==
  \/ \E lni \in DedupIndices : CallAddReply(lni)
  \/ \E gpos \in DedupPositions : \E lni \in DedupIndices : CallAddQuery(gpos, 0 - lni)

DedupSpec == DedupInit /\ [][DedupNext]_vars

(* C13: a call of peer_add_reply or peer_add_query with the index the record  *)
(* was given last leaves the record as it is, so two calls in a row with one  *)
(* index add one entry in total; a call with another index adds one entry:    *)
(* one to bufcount for a reply, one to localind and to querypos for a query.  *)
C13_DedupIdempotent ==
  [][/\ (pc'[0] = "repeat") => (me'[0].peers[1] = me[0].peers[1])
     /\ (pc'[0] = "reply") =>
          /\ me'[0].peers[1].bufcount = me[0].peers[1].bufcount + 1
          /\ me'[0].peers[1].localind = me[0].peers[1].localind
          /\ me'[0].peers[1].querypos = me[0].peers[1].querypos
          /\ me'[0].peers[1].lastadd # me[0].peers[1].lastadd
     /\ (pc'[0] = "query") =>
          /\ me'[0].peers[1].bufcount = me[0].peers[1].bufcount
          /\ Len(me'[0].peers[1].localind) = Len(me[0].peers[1].localind) + 1
          /\ Len(me'[0].peers[1].querypos) = Len(me[0].peers[1].querypos) + 1
          /\ me'[0].peers[1].lastadd = me'[0].peers[1].localind[Len(me'[0].peers[1].localind)]
          /\ me'[0].peers[1].lastadd # me[0].peers[1].lastadd]_vars

C13_Witness ==
  /\ pc[0] = "repeat"
  /\ DedupPeer.bufcount = 0
  /\ Len(DedupPeer.localind) = 2
  /\ Len(DedupPeer.querypos) = 2
  /\ DedupPeer.lastadd = DedupPeer.localind[2]

(* ---------------- C14 ---------------- *)
LastAddOf(mer, j) == IF j <= Len(mer.peers) THEN mer.peers[j].lastadd ELSE 0
Decreasing(sq) == \A i, k \in 1 .. Len(sq) : (i < k) => (sq[i] > sq[k])
NonDecreasing(sq) == \A i, k \in 1 .. Len(sq) : (i < k) => (sq[i] <= sq[k])

(* C14 for every record: the recorded local indices of a peer never decrease  *)
C14_NonDecreasing ==
  \A p \in Procs : \A j \in 1 .. Len(me[p].peers) : NonDecreasing(me[p].peers[j].localind)

(* the index a record of rank p is given in a step of the enumeration passes  *)
(* the assertions of lines 158-160 (reply) and 173-176 (query)                *)
RecordedInOrder(p, j) ==
  (pc[p] = "iterate" /\ j <= Len(me'[p].peers)
     /\ LastAddOf(me'[p], j) # LastAddOf(me[p], j)) =>
    IF me'[p].peers[j].rank > p
    THEN /\ LastAddOf(me'[p], j) > 0
         /\ LastAddOf(me[p], j) <= LastAddOf(me'[p], j)
         /\ me'[p].peers[j].bufcount =
              (IF j <= Len(me[p].peers) THEN me[p].peers[j].bufcount ELSE 0) + 1
    ELSE /\ LastAddOf(me'[p], j) < 0
         /\ LastAddOf(me[p], j) >= LastAddOf(me'[p], j)
         /\ me'[p].peers[j].localind =
              Append(IF j <= Len(me[p].peers) THEN me[p].peers[j].localind ELSE <<>>,
                     LastAddOf(me'[p], j))

(* C14 by the direction of the indices: the owned indices handed to a record  *)
(* of reply obligations arrive in increasing order, the placeholder indices   *)
(* handed to a record of queries in decreasing order (-1, -2, ...), so the    *)
(* recorded local indices of a peer decrease strictly and the ordering        *)
(* assertions of peer_add_reply and peer_add_query hold at every call.        *)
C14_RecordingOrder ==
  /\ [](\A p \in Procs : \A j \in 1 .. Len(me[p].peers) :
          /\ Decreasing(me[p].peers[j].localind)
          /\ \A i \in 1 .. Len(me[p].peers[j].localind) : me[p].peers[j].localind[i] < 0
          /\ (me[p].peers[j].rank > p) => (me[p].peers[j].lastadd >= 0)
          /\ (me[p].peers[j].rank < p) => (me[p].peers[j].lastadd <= 0))
  /\ [][\A p \in Procs : \A j \in 1 .. MaxProcs : RecordedInOrder(p, j)]_vars

C14_Witness ==
  \E p \in Procs : \E q \in Procs :
    /\ p < q
    /\ EnumDone(p)
    /\ EnumDone(q)
    /\ HasPeer(p, q)
    /\ HasPeer(q, p)
    /\ PeerOf(q, p).localind = <<-1, -2>>
    /\ PeerOf(q, p).lastadd = -2
    /\ PeerOf(p, q).bufcount = 2
    /\ PeerOf(p, q).lastadd >= 2

(* ---------------- C15 ---------------- *)
(* C15 for every record: localind and querypos have the same length *)
C15_SameLength ==
  \A p \in Procs : \A j \in 1 .. Len(me[p].peers) :
    Len(me[p].peers[j].localind) = Len(me[p].peers[j].querypos)

(* C15 by the role of the record: during the enumeration localind and         *)
(* querypos of every record have the same length; the record of a lower peer  *)
(* keeps them equal through posting and draining; the record of a higher peer *)
(* has no local index, and from the posting on its querypos is the receive    *)
(* buffer of bufcount entries.                                                *)
C15_ParallelSequences ==
  \A p \in Procs : \A j \in 1 .. Len(me[p].peers) :
    /\ (pc[p] = "iterate") =>
         Len(me[p].peers[j].localind) = Len(me[p].peers[j].querypos)
    /\ (me[p].peers[j].rank < p) =>
         /\ Len(me[p].peers[j].localind) = Len(me[p].peers[j].querypos)
         /\ Len(me[p].peers[j].localind) > 0
         /\ (pc[p] # "iterate") =>
              me[p].peers[j].bufcount = Len(me[p].peers[j].querypos)
    /\ (me[p].peers[j].rank > p) =>
         /\ me[p].peers[j].localind = <<>>
         /\ (pc[p] # "iterate") =>
              /\ Len(me[p].peers[j].querypos) = me[p].peers[j].bufcount
              /\ Len(me[p].peers[j].querypos) > 0

C15_Witness ==
  \E p \in Procs : \E j, k \in 1 .. Len(me[p].peers) :
    /\ pc[p] = "wait"
    /\ me[p].peers[j].rank > p
    /\ me[p].peers[j].localind = <<>>
    /\ Len(me[p].peers[j].querypos) = 1
    /\ me[p].peers[k].rank < p
    /\ Len(me[p].peers[k].localind) = 1
    /\ Len(me[p].peers[k].querypos) = 1

(* ---------------- C16 ---------------- *)
(* the slots of rank p that were written: those that left 0, and the centre   *)
(* slot of the first element, which was given the owned index 0               *)
WrittenSlots(p) ==
  {i \in DOMAIN ln[p].element_nodes : ln[p].element_nodes[i] # 0}
    \cup (IF me[p].lenum > 0 THEN {0} ELSE {})

(* every index handed out sits in exactly one written slot per local side:    *)
(* no write was lost under a later one                                        *)
WrittenOnce(p) ==
  /\ {ln[p].element_nodes[i] : i \in WrittenSlots(p)}
       = (0 .. (me[p].num_owned - 1)) \cup {0 - k : k \in 1 .. me[p].num_shared}
  /\ \A i, k \in WrittenSlots(p) :
       (ln[p].element_nodes[i] = ln[p].element_nodes[k] /\ i # k) =>
         \E c \in ConnIds : Len(forest.conns[c]) = 2 /\ ~IsHangingConn(c)
            /\ TouchingRanks(c) = {p}
            /\ {i, k} = {LocalNum(forest.conns[c][n].elems[1]) * ln[p].vnodes
                           + PosLnodesFaceFull(forest.conns[c][n].face) : n \in 1 .. 2}

(* the slots of the elements of rank p that the enumeration has visited *)
VisitedSlots(p) == {i \in DOMAIN ln[p].element_nodes : i < me[p].lenum * ln[p].vnodes}

(* C16: every slot of a visited element is written once and not overwritten,  *)
(* and after the enumeration none of them is left at 0, the value of a slot   *)
(* that was never written.                                                    *)
C16_WriteOnceSlots ==
  \A p \in Procs :
    /\ WrittenOnce(p)
    /\ (iter[p] = <<>>) => \A i \in VisitedSlots(p) : ln[p].element_nodes[i] # 0

(* ---------------- C17 ---------------- *)
(* rank p is between the end of its enumeration and its cleanup *)
PostingOrDraining(p) == iter[p] = <<>> /\ pc[p] \notin {"finalize", "done"}

(* what of a peer record is no buffer, done state or request *)
PeerFrame(peer) == <<peer.rank, peer.lastadd, peer.localind>>

NumberingKept(p) ==
  /\ ln'[p].element_nodes = ln[p].element_nodes
  /\ me'[p].num_owned = me[p].num_owned
  /\ me'[p].num_shared = me[p].num_shared
  /\ me'[p].lenum = me[p].lenum

(* C17: from the end of the enumeration of a rank to its return no step       *)
(* changes an entry of its slot array, num_owned or num_shared; until the     *)
(* cleanup the recorded remote positions, the peer directory and the rank,    *)
(* last index and local indices of every peer record stay as they are too:    *)
(* posting and draining touch only the buffers, bufcount, done, the requests  *)
(* and the counter.                                                           *)
C17_DrainingFrame ==
  [][\A p \in Procs :
       /\ (iter[p] = <<>>) => NumberingKept(p)
       /\ PostingOrDraining(p) =>
            /\ me'[p].remotepos = me[p].remotepos
            /\ me'[p].proc_peer = me[p].proc_peer
            /\ me'[p].ghost_rank = me[p].ghost_rank
            /\ Len(me'[p].peers) = Len(me[p].peers)
            /\ \A j \in 1 .. Len(me[p].peers) :
                 PeerFrame(me'[p].peers[j]) = PeerFrame(me[p].peers[j])
       /\ (PostingOrDraining(p) /\ pc[p] \in {"iterate", "wait_begin", "wait"}) =>
            /\ ln'[p] = ln[p]
            /\ me'[p].goffset = me[p].goffset]_vars

C17_Witness ==
  \E p \in Procs :
    /\ pc[p] = "finalize"
    /\ Len(me[p].remotepos) = 2
    /\ \A i \in 1 .. 2 : ln[p].element_nodes[me[p].remotepos[i]] = 0 - i
    /\ me[p].num_shared = 2
    /\ Len(me[p].peers) = 1
    /\ me[p].peers[1].localind = <<-1, -2>>
    /\ \A i \in 1 .. 2 : me[p].peers[1].querypos[i] > 0

(* ---------------- C18 ---------------- *)
PastExchange(p) == pc[p] \notin {"iterate", "allgather", "gathering"}
Pending(p) == {m \in net : ~m.delivered /\ (m.src = p \/ m.dst = p)}

(* a rank is never held back on its way into or out of the exchange *)
ExchangeOpen(p) ==
  /\ EnumDone(p) => ENABLED PostQueryReply(p)
  /\ (pc[p] = "allgather") => ENABLED AllgatherEnter(p)
  /\ (pc[p] = "gathering" /\ \A q \in Procs : pc[q] \notin {"iterate", "allgather"}) =>
       ENABLED AllgatherReturn(p)

(* C18: the exchange of the owned counts between posting and draining holds   *)
(* no rank back, whatever messages are pending: every rank can enter it once  *)
(* it has posted and leave it once all ranks have entered, and all ranks get  *)
(* past it; the offsets are those of the owned counts as they stand from the  *)
(* end of the enumeration to the return, so the same before posting and after *)
(* draining.                                                                  *)
C18_ExchangeIndependent ==
  /\ [](\A p \in Procs : ExchangeOpen(p))
  /\ <>(\A p \in Procs : PastExchange(p))
  /\ [](\A p \in Procs : HasOffsets(p) =>
          me[p].goffset = Goffset([q \in Procs |-> me[q].num_owned], mpisize))
  /\ [][\A q \in Procs : (iter[q] = <<>>) => (me'[q].num_owned = me[q].num_owned)]_vars

C18_Witness ==
  \E p \in Procs : \E q \in Procs :
    /\ pc[p] = "wait_begin"
    /\ pc[q] = "gathering"
    /\ Pending(p) # {}
    /\ Pending(q) # {}
    /\ me[p].goffset[mpisize] = NumOwnedSum
    /\ me[p].goffset[p] > 0

(* ---------------- C19 ---------------- *)
(* the table is a function of the offsets alone: rank 0 is handed every ghost *)
(* layer whose offsets start at 0, end at the number of ghosts and never      *)
(* decrease; the other ranks are constructed without a ghost layer            *)
OffsetTables(s, n) ==
  {offs \in [0 .. s -> 0 .. n] :
     /\ offs[0] = 0
     /\ offs[s] = n
     /\ \A q \in 0 .. (s - 1) : offs[q] <= offs[q + 1]}

GhostRankInit ==
  /\ forest = Strip(1)
  /\ mpisize \in 1 .. MaxProcs
  /\ gfq = [q \in 1 .. (mpisize + 1) |-> IF q = 1 THEN 0 ELSE 1]
  /\ with_faces = TRUE
  /\ \E n \in 0 .. MaxGhosts : \E offs \in OffsetTables(mpisize, n) :
       ghost = [p \in Procs |->
                  IF p = 0
                  THEN [present |-> TRUE,
                        ghosts |-> [i \in 1 .. n |-> GhostQuadrant(0)],
                        proc_offsets |-> offs]
                  ELSE NoGhostLayer]
  /\ quadrants_offset = [p \in Procs |-> [t \in 0 .. 0 |-> 0]]
  /\ pc = [p \in Procs |-> "created"]
  /\ iter = [p \in Procs |-> <<>>]
  /\ me = [p \in Procs |-> [MetaInit(NoGhostLayer, mpisize) EXCEPT !.ghost_rank = <<>>]]
  /\ ln = [p \in Procs |-> LnodesInit(0, VNodes(with_faces))]
  /\ owner = [p \in Procs |-> [c \in ConnIds |-> -1]]
  /\ nwtotal = [p \in Procs |-> 0]
  /\ gathered = [p \in Procs |-> -1]
  /\ net = {}

BuildGhostRank(p) ==
  /\ pc[p] = "created"
  /\ me' = [me EXCEPT ![p] = MetaInit(ghost[p], mpisize)]
  /\ pc' = [pc EXCEPT ![p] = "built"]
  /\ UNCHANGED <<inputs, iter, ln, owner, nwtotal, gathered, net>>

GhostRankNext == \E p \in Procs : BuildGhostRank(p)

GhostRankSpec == GhostRankInit /\ [][GhostRankNext]_vars

(* the cursor lg of the walk when its loop is left *)
GhostRankCursor(p) ==
  GhostRankTable(ghost[p].proc_offsets, mpisize, Len(ghost[p].ghosts)).lg

Built(p) == pc[p] = "built" /\ ghost[p].present

(* C19: for offsets that start at 0, end at the number of ghosts and never    *)
(* decrease, the table built has one entry per ghost index, every entry is    *)
(* written, the entry of g is the one rank q with offsets[q] <= g <           *)
(* offsets[q+1], and the walk ends with its cursor at the number of ghosts.   *)
C19_GhostRankLookup ==
  \A p \in Procs : Built(p) =>
    LET offs == ghost[p].proc_offsets
        n == Len(ghost[p].ghosts)
        tab == me[p].ghost_rank
    IN /\ DOMAIN tab = 0 .. (n - 1)
       /\ \A g \in 0 .. (n - 1) :
            /\ tab[g] # Uninit
            /\ tab[g] \in Procs
            /\ \A q \in Procs : (tab[g] = q) <=> (offs[q] <= g /\ g < offs[q + 1])
       /\ GhostRankCursor(p) = n

C19_Witness ==
  \E p \in Procs :
    /\ Built(p)
    /\ mpisize >= 3
    /\ Len(ghost[p].ghosts) >= 3
    /\ \E q \in 0 .. (mpisize - 2) :
         /\ ghost[p].proc_offsets[q] = ghost[p].proc_offsets[q + 1]
         /\ ghost[p].proc_offsets[q + 1] < ghost[p].proc_offsets[q + 2]
    /\ \E g \in DOMAIN me[p].ghost_rank : \E h \in DOMAIN me[p].ghost_rank :
         me[p].ghost_rank[g] < me[p].ghost_rank[h]

(* ---------------- C20 ---------------- *)
FullFacePositions == {PosLnodesFaceFull(f) : f \in 0 .. 3}

(* the faces rank p shares with rank q whose full-face slot on p is pos *)
FacesAt(p, q, pos) == {c \in SharedConns(p, q) : FacePos(p, c) = pos}

(* pos, asked by rank q of rank p, is the full-face slot of a face the two    *)
(* ranks share, inside p's slot array, and holds p's owned index of that face *)
(* once p has visited it                                                      *)
RealSlot(p, q, pos) ==
  /\ 0 <= pos
  /\ pos < ln[p].vnodes * ln[p].num_local_elements
  /\ pos \in DOMAIN ln[p].element_nodes
  /\ (pos % ln[p].vnodes) \in FullFacePositions
  /\ FacesAt(p, q, pos) # {}
  /\ \A c \in FacesAt(p, q, pos) :
       /\ owner[q][c] = p
       /\ Visited(p, c) => (owner[p][c] = p /\ ln[p].element_nodes[pos] > 0)
  /\ (iter[p] = <<>>) =>
       /\ ln[p].element_nodes[pos] > 0
       /\ ln[p].element_nodes[pos] <= me[p].num_owned
       /\ ln[p].num_local_elements <= me[p].num_owned

(* C20: every position a rank records for a query during its enumeration, and *)
(* every position sent in a query, lies inside the owner's slot array, at one *)
(* of the full-face offsets 17, 19, 21, 23 of an element, and is the slot the *)
(* owner writes its owned index into for the face the asker holds the         *)
(* placeholder of.                                                            *)
C20_QueryPositionsReal ==
  /\ \A q \in Procs : (pc[q] = "iterate") =>
       \A j \in 1 .. Len(me[q].peers) :
         LET peer == me[q].peers[j]
         IN \A i \in 1 .. Len(peer.querypos) :
              /\ RealSlot(peer.rank, q, peer.querypos[i])
              /\ \A c \in FacesAt(peer.rank, q, peer.querypos[i]) :
                   peer.localind[i] = FaceSlot(q, c)
  /\ \A m \in net : (m.tag = "QUERY") =>
       /\ m.dst < m.src
       /\ \A i \in 1 .. Len(m.data) : RealSlot(m.dst, m.src, m.data[i])

C20_Witness ==
  \E m \in net :
    /\ m.tag = "QUERY"
    /\ Len(m.data) = 2
    /\ m.data[1] >= ln[m.dst].vnodes
    /\ m.data[1] # m.data[2]
    /\ iter[m.dst] = <<>>
    /\ \A i \in 1 .. 2 : ln[m.dst].element_nodes[m.data[i]] > 0

(* ---------------- C21 ---------------- *)
(* what the record of rank q held by mer has counted, none if there is no record *)
RecordedFor(mer, q) ==
  IF mer.proc_peer[q] = 0 THEN 0
  ELSE mer.peers[mer.proc_peer[q]].bufcount + Len(mer.peers[mer.proc_peer[q]].localind)
SentinelFor(mer, q) ==
  IF mer.proc_peer[q] = 0 THEN 0 ELSE mer.peers[mer.proc_peer[q]].lastadd
VisitedWith(p, q) == {c \in SharedConns(p, q) : Visited(p, c)}

(* the record still holds the value it started with exactly when nothing has *)
(* been counted in it                                                        *)
SentinelUnused(p) ==
  \A q \in Procs \ {p} :
    /\ (SentinelFor(me[p], q) = 0) <=> (RecordedFor(me[p], q) = 0)
    /\ RecordedFor(me[p], q) = Cardinality(VisitedWith(p, q))
    /\ (VisitedWith(p, q) # {}) => HasPeer(p, q)

(* a visit of a face shared with q gives q's record an index other than 0 and *)
(* other than the last one, and counts it                                     *)
FirstCounted(p) ==
  \A q \in Procs \ {p} :
    /\ (SentinelFor(me[p], q) = 0 /\ VisitedWith(p, q)' # {}) =>
         /\ SentinelFor(me'[p], q) # 0
         /\ RecordedFor(me'[p], q) = 1
    /\ (VisitedWith(p, q)' # VisitedWith(p, q)) =>
         /\ SentinelFor(me'[p], q) # SentinelFor(me[p], q)
         /\ RecordedFor(me'[p], q) = RecordedFor(me[p], q) + 1

(* C21: a peer record starts with lastadd = 0 and no index recorded for a     *)
(* peer is ever 0: at every face visit the rank has already numbered an       *)
(* element interior, so an owned face index is > 0, and a placeholder is < 0; *)
(* hence the first reply obligation or query toward each peer is counted, as  *)
(* is every later one.                                                        *)
C21_SentinelNeverSwallows ==
  /\ [](\A p \in Procs : (pc[p] = "iterate") =>
          /\ Visiting(p, "face") => (me[p].lenum > 0 /\ me[p].num_owned > 0)
          /\ SentinelUnused(p))
  /\ [][\A p \in Procs : (pc[p] = "iterate") => FirstCounted(p)]_vars

C21_Witness ==
  \E p \in Procs : \E q \in Procs :
    /\ p < q
    /\ pc[p] = "iterate"
    /\ pc[q] = "iterate"
    /\ HasPeer(p, q)
    /\ HasPeer(q, p)
    /\ PeerOf(p, q).lastadd = 1
    /\ PeerOf(p, q).bufcount = 1
    /\ PeerOf(q, p).lastadd = -1
    /\ Len(PeerOf(q, p).localind) = 1

====
